---- MODULE Spec2Model ----
(***************************************************************************)
(* EchoScribe: upload -> conversion -> transcription job lifecycle.        *)
(*                                                                         *)
(* The state is the on-disk layout (uploads/, uploads/converted/,          *)
(* data/uploads_meta/, data/transcripts/), the process-wide model cache    *)
(* with its asyncio lock and 2-worker executor, one upload request and a   *)
(* bounded number of transcribe requests.  Every action is                 *)
(* one run of a coroutine between two suspension points (awaits that       *)
(* really yield to the event loop).                                        *)
(*                                                                         *)
(* Conventions: every value that may be missing is an option: Absent       *)
(* (= <<>>) for a missing dict key, None or a missing file, Some(v)        *)
(* (= <<v>>) for a present one.  Timestamps are the constant Now (no claim *)
(* reads a clock).                                                         *)
(***************************************************************************)
EXTENDS Integers, Sequences, FiniteSets, TLC

\* ---------------------------------------------------------------- bounds
MaxReq == 2          \* transcribe requests per behaviour
MaxStream == 3       \* longest upload stream, in bytes

\* ------------------------------------------------------ program constants
\* Sizes are scaled down (1 MB chunk -> 1 byte, 8 MB cap -> 2 bytes) so that
\* the cap, cap + 1 and multi-chunk streams are all within MaxStream.
chunk_size == 1
MAX_FILE_SIZE == 2
SnippetLen == 512
max_workers == 2

ALLOWED_MIME_TYPES ==
    {"audio/ogg", "audio/opus", "audio/mpeg", "audio/wav", "audio/x-wav",
     "audio/oga", "audio/mp3"}

CONVERT_EXTS == {".opus", ".oga", ".ogg", ".mp3", ".m4a"}

\* ------------------------------------------------------------ input sets
MimeInputs == {"audio/ogg", "audio/wav", "text/plain"}
ExtInputs == {".wav", ".OGG"}

\* Outcomes of the external tools (black boxes): the conversion tool's exit
\* code, the probe's exit code and stdout, the model load, the inference.
ToolExitCodes == {0, 1}
ProbeOutputs == {"2.5", "N/A"}
\* Raw "text" values of an inference result: characters are one-letter
\* strings, "SP" a blank, "CR" a carriage return, "LF" a line feed.
RawResults == { <<"SP", "a">>, <<"b", "CR", "c">> }

Absent == <<>>
NoFile == Absent
Some(v) == <<v>>
Get(o) == o[1]
Now == "ts"

\* File ids.  Uuids are the values uuid4().hex returns, in the order it
\* returns them, one per accepted upload; LegacyId is the id of a file
\* uploaded by an earlier run of the service.
Uuids == <<"u1">>
LegacyId == "u0"
FileIds == {LegacyId} \cup {Uuids[i] : i \in DOMAIN Uuids}
Requests == 1..MaxReq
\* Two requests more than Requests: after one of them has ended on a failed
\* load the others still are more than the pool has workers.
PoolRequests == 1..(MaxReq + 2)

\* ------------------------------------------------------------- pure code
Min(a, b) == IF a < b THEN a ELSE b

\* str.lower() on the suffixes the model uses.
Lower(s) ==
    CASE s = ".OGG" -> ".ogg"
      [] OTHER -> s

IsSpace(c) == c \in {"SP", "CR", "LF"}

RECURSIVE LStrip(_)
LStrip(s) == IF s # <<>> /\ IsSpace(Head(s)) THEN LStrip(Tail(s)) ELSE s

RECURSIVE RStrip(_)
RStrip(s) ==
    IF s # <<>> /\ IsSpace(s[Len(s)]) THEN RStrip(SubSeq(s, 1, Len(s) - 1)) ELSE s

\* str.strip()
Strip(s) == RStrip(LStrip(s))

\* text[:n]
Take(s, n) == SubSeq(s, 1, Min(Len(s), n))

\* Path.write_text (text mode, newline=None): "\n" becomes os.linesep, which
\* is "\n" on the POSIX hosts the service runs on; other characters as is.
WriteText(s) == s

\* Path.read_text (text mode, universal newlines): "\r\n" and a lone "\r"
\* are both read back as "\n".
RECURSIVE ReadText(_)
ReadText(s) ==
    IF s = <<>> THEN <<>>
    ELSE IF Head(s) = "CR"
         THEN IF Len(s) > 1 /\ s[2] = "LF"
              THEN <<"LF">> \o ReadText(SubSeq(s, 3, Len(s)))
              ELSE <<"LF">> \o ReadText(Tail(s))
         ELSE <<Head(s)>> \o ReadText(Tail(s))

\* float(out.strip()) of the probe's stdout; Absent when it raises.  The
\* float is kept as its decimal text, which is what JSON stores.
ParseFloat(out) == IF out \in {"2.5"} THEN Some(out) ELSE Absent

\* Paths.  A stored file name is a stem (the uuid, i.e. the file id) and a
\* suffix; a path is a directory under BASE_DIR plus a name, absolute or
\* relative.  "root" is BASE_DIR itself.
FileName(stem, suffix) == [stem |-> stem, suffix |-> suffix]
AbsPath(dir, name) == [abs |-> TRUE, dir |-> dir, name |-> name]
RelPath(dir, name) == [abs |-> FALSE, dir |-> dir, name |-> name]

\* uuid4().hex + Path(original_name).suffix: the uuid is the next unused id.
gen_uuid_filename(original_name, uuid) == FileName(uuid, original_name.suffix)

\* A record with no key at all: {} in Python.
EmptyMeta ==
    [file_id |-> Absent, original_name |-> Absent, stored_name |-> Absent,
     mime_type |-> Absent, size_bytes |-> Absent, uploaded_at |-> Absent,
     extra |-> Absent,
     converted_name |-> Absent, converted_path |-> Absent,
     duration_seconds |-> Absent, conversion_error |-> Absent,
     transcription_status |-> Absent, transcription_started_at |-> Absent,
     transcription_finished_at |-> Absent, transcription_error |-> Absent,
     transcript_path |-> Absent, transcript_saved_at |-> Absent,
     transcript_snippet |-> Absent]

EmptyExtra ==
    [converted_name |-> Absent, converted_path |-> Absent,
     duration_seconds |-> Absent, conversion_error |-> Absent]

\* dict.setdefault(key, value)
SetDefault(m, key, value) ==
    IF m[key] = Absent THEN [m EXCEPT ![key] = Some(value)] ELSE m

VARIABLES
    meta,         \* data/uploads_meta/<id>.json : record or NoFile
    blob,         \* uploads/<stored_name>       : the bytes on disk or NoFile
    converted,    \* uploads/converted/<id>.wav  : TRUE iff the file exists
    transcript,   \* data/transcripts/<id>.txt   : file content or NoFile
    upl,          \* the upload request
    nUuids,       \* uuid4() calls so far
    req,          \* the transcribe requests
    MODEL,        \* _MODEL: Absent or the loaded model
    lockHolder,   \* _MODEL_LOCK: the request holding it, or Absent
    lockWaiters,  \* _MODEL_LOCK: requests waiting, in FIFO order
    execQueue,    \* _EXECUTOR: submitted jobs not yet picked by a worker
    execRunning,  \* _EXECUTOR: requests whose job a worker is running
    loadCalls,    \* calls of whisper.load_model so far
    loadFails,    \* of which raised
    infCalls      \* calls of model.transcribe so far

disk == <<meta, blob, converted, transcript>>
engine == <<MODEL, lockHolder, lockWaiters, execQueue, execRunning,
            loadCalls, loadFails, infCalls>>
vars == <<meta, blob, converted, transcript, upl, nUuids, req, MODEL,
          lockHolder, lockWaiters, execQueue, execRunning, loadCalls,
          loadFails, infCalls>>


\* ------------------------------------------------------------------ disk
\* The file a path names, looked up under BASE_DIR.
FileAt(p) ==
    CASE p.dir = "converted" ->
            p.name.stem \in FileIds /\ p.name.suffix = ".wav" /\ converted[p.name.stem]
      [] p.dir = "uploads" ->
            p.name.stem \in FileIds /\ blob[p.name.stem] # NoFile
      [] OTHER -> FALSE

\* The service is started from the project root (the `app` package is
\* imported from there), so a relative path resolves against BASE_DIR.
CwdIsBaseDir == TRUE

\* Path(p).exists()
PathExists(p) == IF p.abs THEN FileAt(p) ELSE CwdIsBaseDir /\ FileAt(p)

\* What an earlier run of the service left on disk for file id LegacyId: a
\* record in one of the three shapes get_transcript's tolerant lookup
\* accepts, or one with no conversion fields, and the converted file (which
\* for the first shape may have been removed since).  The last shape is
\* left by a run that was stopped between transcribe_audio's transcript
\* write and its "done" update: the transcript is there, the record still
\* says running.
LegacyBase ==
    [EmptyMeta EXCEPT !.file_id = Some(LegacyId),
                      !.original_name = Some(FileName("client", ".ogg")),
                      !.stored_name = Some(FileName(LegacyId, ".ogg")),
                      !.mime_type = Some("audio/ogg"),
                      !.size_bytes = Some(1),
                      !.uploaded_at = Some(Now)]

LegacyDisks ==
    LET name == FileName(LegacyId, ".wav")
        top == [LegacyBase EXCEPT !.converted_path = Some(AbsPath("converted", name))]
    IN  { [record |-> top, converted |-> TRUE, transcript |-> NoFile],
          [record |-> top, converted |-> FALSE, transcript |-> NoFile],
          [record |-> [LegacyBase EXCEPT !.extra =
                          Some([EmptyExtra EXCEPT !.converted_name = Some(name)])],
           converted |-> TRUE, transcript |-> NoFile],
          [record |-> [LegacyBase EXCEPT !.converted_name = Some(name)],
           converted |-> TRUE, transcript |-> NoFile],
          [record |-> LegacyBase, converted |-> FALSE, transcript |-> NoFile],
          [record |-> [top EXCEPT !.transcription_status = Some("running"),
                                  !.transcription_started_at = Some(Now)],
           converted |-> TRUE, transcript |-> Some(<<"a">>)] }

\* ---------------------------------------------------------------- upload
\* The upload request: the UploadFile, the destination name, the read
\* position and save_upload_file's `total`, the HTTP status and body it
\* answered with.  toolFailed is history: the conversion tool or the probe
\* failed.
IdleUpload ==
    [pc |-> "idle", file |-> Absent, dest |-> Absent, pos |-> 0, total |-> 0,
     status |-> Absent, body |-> Absent, toolFailed |-> FALSE]

\* The bytes of a stream of n bytes: byte i has value i.
Stream(n) == [i \in 1..n |-> i]

\* An UploadFile: client filename (only its suffix matters), declared
\* content type, and the length of its stream.
UploadFiles ==
    [filename : {FileName("client", e) : e \in ExtInputs},
     content_type : MimeInputs,
     size : 0..MaxStream]

FinishedUpload(u, status, body) ==
    [u EXCEPT !.pc = "finished", !.status = Some(status), !.body = body]

\* save_upload_metadata: the record written to data/uploads_meta/<id>.json.
save_upload_metadata(original_name, stored_name, mime_type, size_bytes, extra) ==
    [EmptyMeta EXCEPT !.file_id = Some(stored_name.stem),
                      !.original_name = Some(original_name),
                      !.stored_name = Some(stored_name),
                      !.mime_type = Some(mime_type),
                      !.size_bytes = Some(size_bytes),
                      !.uploaded_at = Some(Now),
                      !.extra = IF extra # EmptyExtra THEN Some(extra) ELSE Absent]

\* save_and_convert_upload, after the metadata write: the returned dict is
\* the written one plus top-level copies of what `extra` holds.
ReturnedMetadata(metadata, extra) ==
    LET withConv ==
            IF extra.converted_name # Absent
            THEN [metadata EXCEPT !.converted_name = extra.converted_name,
                                  !.converted_path = extra.converted_path,
                                  !.duration_seconds = extra.duration_seconds]
            ELSE metadata
    IN  IF extra.conversion_error # Absent
        THEN [withConv EXCEPT !.conversion_error = extra.conversion_error]
        ELSE withConv

\* save_and_convert_upload step 3 and upload_audio's return: write the
\* record, answer 200 with the returned metadata.
WriteMetadataAndReturn(extra, toolFailed) ==
    LET dest == Get(upl.dest)
        file == Get(upl.file)
        metadata == save_upload_metadata(file.filename, dest, file.content_type,
                                         upl.total, extra)
    IN  /\ meta' = [meta EXCEPT ![dest.stem] = Some(metadata)]
        /\ upl' = FinishedUpload([upl EXCEPT !.toolFailed = toolFailed], 200,
                                 Some(ReturnedMetadata(metadata, extra)))

\* RejectUpload with the MIME check made after save_upload_file has opened
\* the destination: the rejected upload leaves an empty blob.
RejectUpload_AfterOpen(file) ==
    /\ nUuids < Len(Uuids)
    /\ nUuids' = nUuids + 1
    /\ blob' = [blob EXCEPT ![Uuids[nUuids + 1]] = Some(<<>>)]
    /\ upl' = FinishedUpload([IdleUpload EXCEPT !.file = Some(file)], 400, Absent)

\* upload_audio's MIME check fails: 400, before a name is drawn or a file
\* opened.
RejectUpload(file) ==
    /\ upl' = FinishedUpload([IdleUpload EXCEPT !.file = Some(file)], 400, Absent)
    /\ UNCHANGED <<blob, nUuids>>

\* upload_audio up to the first chunk read: MIME check, stored name, and
\* save_upload_file opening the destination for writing.
UploadBegin(file) ==
    /\ upl.pc = "idle"
    /\ IF file.content_type \notin ALLOWED_MIME_TYPES
       THEN RejectUpload(file)
       ELSE /\ nUuids < Len(Uuids)
            /\ nUuids' = nUuids + 1
            /\ LET stored == gen_uuid_filename(file.filename, Uuids[nUuids + 1])
               IN  /\ blob' = [blob EXCEPT ![stored.stem] = Some(<<>>)]
                   /\ upl' = [IdleUpload EXCEPT !.pc = "saving", !.file = Some(file),
                                                !.dest = Some(stored)]
    /\ UNCHANGED <<meta, converted, transcript, req, engine>>

\* OverCap with the cap itself already rejected.
OverCap_Inclusive(total) == total >= MAX_FILE_SIZE

\* save_upload_file's cap test on the running total.
OverCap(total) == total > MAX_FILE_SIZE

\* OverCapCleanup without the unlink: the partial file stays.
OverCapCleanup_KeepsFile(fid) == blob

\* save_upload_file over the cap: close the file and unlink it.
OverCapCleanup(fid) == [blob EXCEPT ![fid] = NoFile]

\* save_upload_file: one turn of the chunk loop, and at end of stream the
\* rest of save_and_convert_upload up to its next await.
UploadChunk ==
    /\ upl.pc = "saving"
    /\ LET size == Get(upl.file).size
           chunk == SubSeq(Stream(size), upl.pos + 1, Min(upl.pos + chunk_size, size))
           total == upl.total + Len(chunk)
           fid == Get(upl.dest).stem
       IN  IF chunk = <<>>
           THEN IF Lower(Get(upl.dest).suffix) \in CONVERT_EXTS
                THEN /\ upl' = [upl EXCEPT !.pc = "converting"]
                     /\ UNCHANGED <<meta, blob>>
                ELSE /\ WriteMetadataAndReturn(EmptyExtra, FALSE)
                     /\ UNCHANGED blob
           ELSE IF OverCap(total)
                THEN /\ blob' = OverCapCleanup(fid)
                     /\ upl' = FinishedUpload([upl EXCEPT !.total = total], 413, Absent)
                     /\ UNCHANGED meta
                ELSE /\ blob' = [blob EXCEPT ![fid] = Some(Get(@) \o chunk)]
                     /\ upl' = [upl EXCEPT !.pos = @ + Len(chunk), !.total = total]
                     /\ UNCHANGED meta
    /\ UNCHANGED <<converted, transcript, nUuids, req, engine>>

\* conversion.convert_opus_to_wav returns: exit code rc of the tool.
ConvertDone(rc) ==
    /\ upl.pc = "converting"
    /\ IF rc # 0
       THEN /\ WriteMetadataAndReturn(
                   [EmptyExtra EXCEPT !.conversion_error = Some("ffmpeg failed")],
                   TRUE)
            /\ UNCHANGED converted
       ELSE /\ converted' = [converted EXCEPT ![Get(upl.dest).stem] = TRUE]
            /\ upl' = [upl EXCEPT !.pc = "probing"]
            /\ UNCHANGED meta
    /\ UNCHANGED <<blob, transcript, nUuids, req, engine>>

\* ConversionExtra with converted_name and converted_path stored as soon as
\* the conversion has succeeded, before the probe: a failed probe leaves
\* them beside conversion_error.
ConversionExtra_EarlyFields(converted_name, rc, out) ==
    LET early == [EmptyExtra EXCEPT
                     !.converted_name = Some(converted_name),
                     !.converted_path = Some(AbsPath("converted", converted_name))]
    IN  IF rc # 0
        THEN [early EXCEPT !.conversion_error = Some("ffprobe failed")]
        ELSE IF ParseFloat(out) = Absent
        THEN [early EXCEPT !.conversion_error = Some("Could not parse duration")]
        ELSE [early EXCEPT !.duration_seconds = ParseFloat(out)]

\* save_and_convert_upload's `extra` once the conversion has succeeded and
\* the probe has answered with exit code rc and stdout out: the three
\* converted fields, or conversion_error alone when the probe raised.
ConversionExtra(converted_name, rc, out) ==
    IF rc # 0
    THEN [EmptyExtra EXCEPT !.conversion_error = Some("ffprobe failed")]
    ELSE IF ParseFloat(out) = Absent
    THEN [EmptyExtra EXCEPT !.conversion_error = Some("Could not parse duration")]
    ELSE [EmptyExtra EXCEPT
             !.converted_name = Some(converted_name),
             !.converted_path = Some(AbsPath("converted", converted_name)),
             !.duration_seconds = ParseFloat(out)]

\* conversion.get_duration_seconds returns: exit code and stdout of the probe.
ProbeDone(rc, out) ==
    /\ upl.pc = "probing"
    /\ WriteMetadataAndReturn(
           ConversionExtra(FileName(Get(upl.dest).stem, ".wav"), rc, out),
           rc # 0 \/ ParseFloat(out) = Absent)
    /\ UNCHANGED <<blob, converted, transcript, nUuids, req, engine>>

\* ------------------------------------------------------------ transcribe
\* A transcribe request: the file id asked for, the model it was handed,
\* the HTTP status and transcript it answered with.  The other fields are
\* history.  ranInference: the request's own inference job ran; prior: the
\* transcripts earlier requests for the same id had answered with when this
\* one began; overlapped: it ran while another request for the same id did;
\* waited: it had to wait for _MODEL_LOCK; result: what its inference job
\* returned or raised; wrote: its latest metadata update reached the disk.
IdleRequest ==
    [pc |-> "idle", fid |-> Absent, path |-> Absent, model |-> Absent,
     status |-> Absent, text |-> Absent,
     ranInference |-> FALSE, prior |-> {}, overlapped |-> FALSE, waited |-> FALSE,
     result |-> Absent, wrote |-> FALSE]

\* Outcome of the disk operations of one step: metadata read, metadata
\* write, transcript write.  NoFault is the disk working.
NoFault == [mr |-> TRUE, mw |-> TRUE, tw |-> TRUE]
Faults == [mr : BOOLEAN, mw : BOOLEAN, tw : BOOLEAN]

InFlight(r) == req[r].pc \in {"waitlock", "load", "infer"}

\* _metadata_path_for / _get_metadata_path(file_id).exists()
MetaExists(f) == meta[f] # NoFile

\* The keys transcribe_audio's updates assign.
TranscriptionKeys ==
    {"transcription_status", "transcription_started_at",
     "transcription_finished_at", "transcription_error", "transcript_path",
     "transcript_saved_at", "transcript_snippet"}

\* read_metadata handing back a stale copy: the record as it was read
\* before any transcribe request had updated it.
read_metadata_Stale(f, ok) ==
    IF ok
    THEN [k \in DOMAIN EmptyMeta |->
             IF k \in TranscriptionKeys THEN Absent ELSE Get(meta[f])[k]]
    ELSE EmptyMeta

\* _read_metadata: the parsed record, {} when reading or parsing raises.
read_metadata(f, ok) == IF ok THEN Get(meta[f]) ELSE EmptyMeta

\* _write_metadata: the record replaces the file; an exception is swallowed.
write_metadata(f, m, ok) == IF ok THEN [meta EXCEPT ![f] = Some(m)] ELSE meta

\* get_transcript's tolerant lookup of the converted audio path:
\* top-level converted_path, then extra.converted_path or
\* extra.converted_name (used as a path as it is), then top-level
\* converted_name under uploads/converted.  Absent: none of them.
ResolveConvertedPath(m) ==
    LET extra == IF m.extra = Absent THEN EmptyExtra ELSE Get(m.extra)
    IN  IF m.converted_path # Absent THEN m.converted_path
        ELSE IF extra.converted_path # Absent THEN extra.converted_path
        ELSE IF extra.converted_name # Absent
             THEN Some(RelPath("root", Get(extra.converted_name)))
        ELSE IF m.converted_name # Absent
             THEN Some(RelPath("converted", Get(m.converted_name)))
        ELSE Absent

\* get_transcript's existence check: the path itself, else (when relative)
\* the same path under DATA_DIR.parent.  Absent: neither exists.
ExistingPath(p) ==
    IF PathExists(p) THEN Some(p)
    ELSE IF ~p.abs /\ FileAt(p) THEN Some(AbsPath(p.dir, p.name))
    ELSE Absent

\* The request after a metadata update of file f's record under io.
Updated(rq, f, io) == [rq EXCEPT !.wrote = MetaExists(f) /\ io.mw]

\* The request has answered.
Answered(rq, status, text) ==
    [rq EXCEPT !.pc = "done", !.status = Some(status), !.text = text]

\* transcribe_audio's quick return: the transcript file exists.
CachedMeta(m, f) ==
    SetDefault(
        SetDefault(
            SetDefault(m, "transcription_status", "done"),
            "transcript_path", AbsPath("transcripts", FileName(f, ".txt"))),
        "transcript_saved_at", Now)

\* transcribe_audio's "running" update.
RunningMeta(m) ==
    [m EXCEPT !.transcription_status = Some("running"),
              !.transcription_started_at = Some(Now)]

\* transcribe_audio's "failed" update.
FailedMeta(m, error) ==
    [m EXCEPT !.transcription_status = Some("failed"),
              !.transcription_error = Some(error),
              !.transcription_finished_at = Some(Now)]

\* transcribe_audio's "done" update.
DoneMeta(m, f, transcript_text) ==
    [m EXCEPT !.transcription_status = Some("done"),
              !.transcription_finished_at = Some(Now),
              !.transcript_path = Some(AbsPath("transcripts", FileName(f, ".txt"))),
              !.transcript_saved_at = Some(Now),
              !.transcript_snippet = Some(Take(transcript_text, SnippetLen))]

\* loop.run_in_executor(_EXECUTOR, job): the job joins the pool's queue.
Submit(r) == execQueue' = Append(execQueue, r)

\* The requests as they are once a new request for file id f has begun:
\* the ones in flight for f have overlapped another request.
WithOverlap(f) ==
    [q \in DOMAIN req |->
        IF InFlight(q) /\ req[q].fid = Some(f)
        THEN [req[q] EXCEPT !.overlapped = TRUE]
        ELSE req[q]]

\* _load_model up to its first suspension, for a request whose record is rq
\* (base: the other requests): the cached model, else the lock (taken at
\* once when it is free and nobody waits, as asyncio.Lock.acquire does) and
\* the load job, else the wait.  With the model in hand transcribe_audio
\* submits the inference job.
EnterLoadModel(r, rq, base) ==
    IF MODEL # Absent
    THEN /\ req' = [base EXCEPT ![r] = [rq EXCEPT !.pc = "infer", !.model = MODEL]]
         /\ Submit(r)
         /\ UNCHANGED <<lockHolder, lockWaiters>>
    ELSE IF lockHolder = Absent /\ lockWaiters = <<>>
    THEN /\ req' = [base EXCEPT ![r] = [rq EXCEPT !.pc = "load"]]
         /\ lockHolder' = Some(r)
         /\ Submit(r)
         /\ UNCHANGED lockWaiters
    ELSE /\ req' = [base EXCEPT ![r] = [rq EXCEPT !.pc = "waitlock", !.waited = TRUE]]
         /\ lockWaiters' = Append(lockWaiters, r)
         /\ UNCHANGED <<lockHolder, execQueue>>

\* Refuse recording the failure in the file's metadata on its way out.
Refuse_RecordsFailure(r, rq, base, status) ==
    /\ req' = [base EXCEPT ![r] = Answered(rq, status, Absent)]
    /\ meta' = [meta EXCEPT ![Get(rq.fid)] =
                    Some(FailedMeta(IF @ = NoFile THEN EmptyMeta ELSE Get(@),
                                    "not available"))]
    /\ UNCHANGED <<lockHolder, lockWaiters, execQueue>>

\* get_transcript raises HTTPException(status): the request ends there.
Refuse(r, rq, base, status) ==
    /\ req' = [base EXCEPT ![r] = Answered(rq, status, Absent)]
    /\ UNCHANGED <<meta, lockHolder, lockWaiters, execQueue>>

\* transcribe_audio up to its first suspension: FileNotFoundError (404 in
\* get_transcript) when the audio is missing, the quick return when the
\* transcript file exists, else the "running" update and _load_model.
TranscribeAudioBegin(r, rq, base, io) ==
    LET file_id == Get(rq.path).name.stem
    IN  IF ~PathExists(Get(rq.path)) THEN Refuse(r, rq, base, 404)
        ELSE IF transcript[file_id] # NoFile
        THEN /\ meta' = IF MetaExists(file_id)
                        THEN write_metadata(file_id,
                                 CachedMeta(read_metadata(file_id, io.mr), file_id),
                                 io.mw)
                        ELSE meta
             /\ req' = [base EXCEPT ![r] =
                          Answered(Updated(rq, file_id, io), 200,
                                   Some(ReadText(Get(transcript[file_id]))))]
             /\ UNCHANGED <<lockHolder, lockWaiters, execQueue>>
        ELSE /\ meta' = IF MetaExists(file_id)
                        THEN write_metadata(file_id,
                                 RunningMeta(read_metadata(file_id, io.mr)), io.mw)
                        ELSE meta
             /\ EnterLoadModel(r, Updated(rq, file_id, io), base)

\* get_transcript from the start to the first suspension of the request:
\* metadata lookup (404), path lookup (400), existence check (404), then
\* transcribe_audio.  Requests begin in the order of their numbers.
GetTranscript(r, f, io) ==
    /\ req[r].pc = "idle"
    /\ \A q \in DOMAIN req : q < r => req[q].pc # "idle"
    /\ LET earlier == {q \in DOMAIN req : /\ req[q].pc = "done"
                                        /\ req[q].fid = Some(f)
                                        /\ req[q].status = Some(200)}
           rq == [req[r] EXCEPT
                     !.fid = Some(f),
                     !.prior = {Get(req[q].text) : q \in earlier},
                     !.overlapped = \E q \in DOMAIN req :
                                        InFlight(q) /\ req[q].fid = Some(f)]
           base == WithOverlap(f)
       IN  IF ~MetaExists(f) THEN Refuse(r, rq, base, 404)
           ELSE LET converted_path == ResolveConvertedPath(Get(meta[f]))
                IN  IF converted_path = Absent THEN Refuse(r, rq, base, 400)
                    ELSE IF ExistingPath(Get(converted_path)) = Absent
                         THEN Refuse(r, rq, base, 404)
                    ELSE TranscribeAudioBegin(
                             r, [rq EXCEPT !.path = ExistingPath(Get(converted_path))],
                             base, io)
    /\ UNCHANGED <<blob, converted, transcript, upl, nUuids, MODEL, execRunning,
                   loadCalls, loadFails, infCalls>>

\* LockAcquired without _load_model's second `_MODEL is not None` check
\* under the lock: every request that waited loads the model itself.
LockAcquired_NoRecheck(r) ==
    /\ req[r].pc = "waitlock"
    /\ lockHolder = Absent
    /\ lockWaiters # <<>> /\ Head(lockWaiters) = r
    /\ lockWaiters' = Tail(lockWaiters)
    /\ req' = [req EXCEPT ![r].pc = "load"]
    /\ lockHolder' = Some(r)
    /\ Submit(r)
    /\ UNCHANGED <<disk, upl, nUuids, MODEL, execRunning, loadCalls, loadFails,
                   infCalls>>

\* A request waiting for _MODEL_LOCK gets it (first come, first served) and
\* runs _load_model's second check: the model is there (the lock is released
\* on the way out), or the request becomes the loader.
LockAcquired(r) ==
    /\ req[r].pc = "waitlock"
    /\ lockHolder = Absent
    /\ lockWaiters # <<>> /\ Head(lockWaiters) = r
    /\ lockWaiters' = Tail(lockWaiters)
    /\ IF MODEL # Absent
       THEN /\ req' = [req EXCEPT ![r].pc = "infer", ![r].model = MODEL]
            /\ UNCHANGED lockHolder
       ELSE /\ req' = [req EXCEPT ![r].pc = "load"]
            /\ lockHolder' = Some(r)
    /\ Submit(r)
    /\ UNCHANGED <<disk, upl, nUuids, MODEL, execRunning, loadCalls, loadFails,
                   infCalls>>

\* A worker of the pool picks the oldest queued job and calls
\* whisper.load_model or model.transcribe.
WorkerStart(r) ==
    /\ execQueue # <<>> /\ Head(execQueue) = r
    /\ Cardinality(execRunning) < max_workers
    /\ execQueue' = Tail(execQueue)
    /\ execRunning' = execRunning \cup {r}
    /\ IF req[r].pc = "load"
       THEN /\ loadCalls' = loadCalls + 1
            /\ UNCHANGED <<infCalls, req>>
       ELSE /\ infCalls' = infCalls + 1
            /\ req' = [req EXCEPT ![r].ranInference = TRUE]
            /\ UNCHANGED loadCalls
    /\ UNCHANGED <<disk, upl, nUuids, MODEL, lockHolder, lockWaiters, loadFails>>

\* LoadModelDone with a load that raises while the lock stays held: nothing
\* leaves the `async with` block.
LoadModelDone_KeepsLock(r, ok) ==
    /\ r \in execRunning /\ req[r].pc = "load"
    /\ execRunning' = execRunning \ {r}
    /\ IF ok
       THEN /\ MODEL' = Some(loadCalls)
            /\ lockHolder' = Absent
            /\ req' = [req EXCEPT ![r].pc = "infer", ![r].model = Some(loadCalls)]
            /\ Submit(r)
            /\ UNCHANGED loadFails
       ELSE /\ loadFails' = loadFails + 1
            /\ req' = [req EXCEPT ![r] = Answered(@, 500, Absent)]
            /\ UNCHANGED <<MODEL, execQueue, lockHolder>>
    /\ UNCHANGED <<disk, upl, nUuids, lockWaiters, loadCalls, infCalls>>

\* _sync_load returns or raises: the loader stores the model, leaves the
\* lock and submits its inference job; or the exception leaves the lock and
\* ends the request with 500 (transcribe_audio has no handler around it).
LoadModelDone(r, ok) ==
    /\ r \in execRunning /\ req[r].pc = "load"
    /\ execRunning' = execRunning \ {r}
    /\ lockHolder' = Absent
    /\ IF ok
       THEN /\ MODEL' = Some(loadCalls)
            /\ req' = [req EXCEPT ![r].pc = "infer", ![r].model = Some(loadCalls)]
            /\ Submit(r)
            /\ UNCHANGED loadFails
       ELSE /\ loadFails' = loadFails + 1
            /\ req' = [req EXCEPT ![r] = Answered(@, 500, Absent)]
            /\ UNCHANGED <<MODEL, execQueue>>
    /\ UNCHANGED <<disk, upl, nUuids, lockWaiters, loadCalls, infCalls>>

\* InferenceOutcome with a metadata failure surfacing as the request's
\* error.
InferenceOutcome_MetadataFatal(rq, result, io) ==
    IF result.ok /\ io.mr /\ io.mw
    THEN Answered(rq, 200, Some(Strip(result.text)))
    ELSE Answered(rq, 500, Absent)

\* What the request answers once its inference job has returned or raised:
\* the stripped text with 200, or 500.  _read_metadata and _write_metadata
\* swallow their exceptions, so io plays no part.
InferenceOutcome(rq, result, io) ==
    IF result.ok
    THEN Answered(rq, 200, Some(Strip(result.text)))
    ELSE Answered(rq, 500, Absent)

\* What model.transcribe does: a result dict with raw text, or an exception.
InferenceResults ==
    {[ok |-> TRUE, text |-> raw] : raw \in RawResults} \cup {[ok |-> FALSE, text |-> <<>>]}

\* _sync_transcribe returns or raises: transcribe_audio from line 121 to its
\* end, and get_transcript's answer.
InferenceDone(r, result, io) ==
    /\ r \in execRunning /\ req[r].pc = "infer"
    /\ execRunning' = execRunning \ {r}
    /\ LET file_id == Get(req[r].path).name.stem
           transcript_text == Strip(result.text)
       IN  IF ~result.ok
           THEN /\ meta' = IF MetaExists(file_id)
                           THEN write_metadata(file_id,
                                    FailedMeta(read_metadata(file_id, io.mr),
                                               "inference error"), io.mw)
                           ELSE meta
                /\ UNCHANGED transcript
           ELSE /\ transcript' = IF io.tw
                                 THEN [transcript EXCEPT
                                          ![file_id] = Some(WriteText(transcript_text))]
                                 ELSE transcript
                /\ meta' = IF MetaExists(file_id)
                           THEN write_metadata(file_id,
                                    DoneMeta(read_metadata(file_id, io.mr), file_id,
                                             transcript_text), io.mw)
                           ELSE meta
    /\ req' = [req EXCEPT ![r] =
                  InferenceOutcome(
                      [Updated(@, Get(@.path).name.stem, io) EXCEPT
                          !.result = Some(result)],
                      result, io)]
    /\ UNCHANGED <<blob, converted, upl, nUuids, MODEL, lockHolder, lockWaiters,
                   execQueue, loadCalls, loadFails, infCalls>>

\* save_upload_file: reading the stream or writing a chunk raises an I/O
\* error.  The `async with` closes the file, nothing removes it, and
\* upload_audio answers 500.
UploadIOError ==
    /\ upl.pc = "saving"
    /\ upl' = FinishedUpload(upl, 500, Absent)
    /\ UNCHANGED <<disk, nUuids, req, engine>>

\* ------------------------------------------------------- specifications
Init ==
    /\ \E legacy \in LegacyDisks :
          /\ meta = [f \in FileIds |->
                        IF f = LegacyId THEN Some(legacy.record) ELSE NoFile]
          /\ converted = [f \in FileIds |-> f = LegacyId /\ legacy.converted]
          /\ transcript = [f \in FileIds |->
                              IF f = LegacyId THEN legacy.transcript ELSE NoFile]
    /\ blob = [f \in FileIds |-> IF f = LegacyId THEN Some(Stream(1)) ELSE NoFile]
    /\ upl = IdleUpload
    /\ nUuids = 0
    /\ req = [r \in PoolRequests |-> IdleRequest]
    /\ MODEL = Absent
    /\ lockHolder = Absent
    /\ lockWaiters = <<>>
    /\ execQueue = <<>>
    /\ execRunning = {}
    /\ loadCalls = 0
    /\ loadFails = 0
    /\ infCalls = 0

\* The service with a working disk: external tools, model load and inference
\* may fail, file reads and writes do not.
Next ==
    \/ \E file \in UploadFiles : UploadBegin(file)
    \/ UploadChunk
    \/ \E rc \in ToolExitCodes : ConvertDone(rc)
    \/ \E rc \in ToolExitCodes, out \in ProbeOutputs : ProbeDone(rc, out)
    \/ \E r \in Requests, f \in FileIds : GetTranscript(r, f, NoFault)
    \/ \E r \in Requests : LockAcquired(r)
    \/ \E r \in Requests : WorkerStart(r)
    \/ \E r \in Requests, ok \in BOOLEAN : LoadModelDone(r, ok)
    \/ \E r \in Requests, result \in InferenceResults : InferenceDone(r, result, NoFault)

Spec == Init /\ [][Next]_vars

\* The same service on a disk whose reads and writes may fail.
NextIO ==
    \/ \E file \in UploadFiles : UploadBegin(file)
    \/ UploadChunk
    \/ UploadIOError
    \/ \E rc \in ToolExitCodes : ConvertDone(rc)
    \/ \E rc \in ToolExitCodes, out \in ProbeOutputs : ProbeDone(rc, out)
    \/ \E r \in Requests, f \in FileIds, io \in Faults : GetTranscript(r, f, io)
    \/ \E r \in Requests : LockAcquired(r)
    \/ \E r \in Requests : WorkerStart(r)
    \/ \E r \in Requests, ok \in BOOLEAN : LoadModelDone(r, ok)
    \/ \E r \in Requests, result \in InferenceResults, io \in Faults :
          InferenceDone(r, result, io)

SpecIO == Init /\ [][NextIO]_vars

\* The transcription engine alone, with more requests than the pool has
\* workers and no upload going on.  The event loop runs every callback that
\* is ready, a free worker picks the oldest job, and every call of
\* whisper.load_model and model.transcribe returns or raises.
NextPool ==
    \/ \E r \in PoolRequests, f \in FileIds : GetTranscript(r, f, NoFault)
    \/ \E r \in PoolRequests : LockAcquired(r)
    \/ \E r \in PoolRequests : WorkerStart(r)
    \/ \E r \in PoolRequests, ok \in BOOLEAN : LoadModelDone(r, ok)
    \/ \E r \in PoolRequests, result \in InferenceResults :
          InferenceDone(r, result, NoFault)

Fairness ==
    \A r \in PoolRequests :
        /\ WF_vars(LockAcquired(r))
        /\ WF_vars(WorkerStart(r))
        /\ WF_vars(\E ok \in BOOLEAN : LoadModelDone(r, ok))
        /\ WF_vars(\E result \in InferenceResults : InferenceDone(r, result, NoFault))

SpecPool == Init /\ [][NextPool]_vars /\ Fairness

\* ---------------------------------------------------------------- claims
\* transcription_status of a file's record; Absent without a record.
Status(f) == IF MetaExists(f) THEN Get(meta[f]).transcription_status ELSE Absent

Finished(r) == req[r].pc = "done"
Succeeded(r) == Finished(r) /\ req[r].status = Some(200)

\* No two transcribe requests for r's file id have run at the same time.
Sequential(r) ==
    \A q \in Requests : req[q].fid = req[r].fid => ~req[q].overlapped

\* C1: idempotent replay.  A transcribe request that begins after an
\* earlier request for the same file id has succeeded (and overlaps no
\* other request for that id) never runs inference, and when it succeeds it
\* returns the text the earlier request returned.
C1_IdempotentReplay ==
    \A r \in Requests :
        (req[r].prior # {} /\ Sequential(r)) =>
            /\ ~req[r].ranInference
            /\ Succeeded(r) => req[r].prior = {Get(req[r].text)}

StatusMoves ==
    { <<Absent, Some("running")>>, <<Some("running"), Some("done")>>,
      <<Some("running"), Some("failed")>>, <<Some("failed"), Some("running")>> }

\* C2: transcription_status moves only absent -> running, running -> done,
\* running -> failed and failed -> running, whatever requests run and
\* however they overlap.
C2_StatusMovesForward ==
    [][\A f \in FileIds :
          Status(f)' # Status(f) => <<Status(f), Status(f)'>> \in StatusMoves]_vars

\* C10: once a record says done, the content of the file's transcript never
\* changes, whatever requests run and however they overlap.
C10_TranscriptImmutable ==
    [][\A f \in FileIds :
          Status(f) = Some("done") => transcript'[f] = transcript[f]]_vars

\* C3 as stated: whisper.load_model is called at most once in total, and
\* every request that has a model has the one loaded model.
C3_LoadedExactlyOnce ==
    /\ loadCalls <= 1
    /\ \A r \in Requests : req[r].model \in {Absent, MODEL}

\* A worker is inside whisper.load_model.
LoadRunning == \E r \in execRunning : req[r].pc = "load"

\* C3 as amended: a load is called only when no model is loaded, no other
\* load is running and every earlier load has raised, so at most one load
\* ever succeeds and none is called after it; a request reaches inference
\* only with that one loaded model, having waited for it if need be.
C3_LoadExclusive ==
    /\ loadCalls = loadFails + (IF MODEL # Absent \/ LoadRunning THEN 1 ELSE 0)
    /\ ~(MODEL # Absent /\ LoadRunning)
    /\ Cardinality({r \in Requests : req[r].pc = "load"}) <= 1
    /\ \A r \in Requests :
          /\ req[r].model \in {Absent, MODEL}
          /\ req[r].pc = "infer" => req[r].model # Absent
          /\ req[r].pc = "waitlock" => req[r].model = Absent /\ ~req[r].ranInference

\* Two requests began while no model was loaded, one of them waited for the
\* lock, the load ran once, and both have the loaded model.
C3_Witness ==
    /\ MODEL # Absent /\ loadCalls = 1
    /\ \E r1, r2 \in Requests :
          /\ r1 # r2 /\ req[r2].waited /\ ~req[r1].waited
          /\ req[r1].model = MODEL /\ req[r2].model = MODEL

\* C4: an upload with an accepted MIME type whose stream is longer than the
\* cap ends with 413, with no file at the destination and no record for the
\* id that was drawn for it.
C4_OverCapRejected ==
    (/\ upl.pc = "finished"
     /\ Get(upl.file).content_type \in ALLOWED_MIME_TYPES
     /\ Get(upl.file).size > MAX_FILE_SIZE) =>
        /\ upl.status = Some(413)
        /\ blob[Get(upl.dest).stem] = NoFile
        /\ meta[Get(upl.dest).stem] = NoFile

C4_Witness ==
    /\ upl.pc = "finished" /\ upl.status = Some(413)
    /\ Get(upl.file).size > MAX_FILE_SIZE

\* C5: an upload whose declared MIME type is not allowed ends with 400 in
\* the step that begins it, and blobs, converted files and records are what
\* they were before.
C5_RejectedMimeWritesNothing ==
    [][(/\ upl.pc = "idle" /\ upl'.pc # "idle"
        /\ Get(upl'.file).content_type \notin ALLOWED_MIME_TYPES) =>
            /\ upl'.pc = "finished" /\ upl'.status = Some(400)
            /\ meta' = meta /\ blob' = blob /\ converted' = converted]_vars

C5_Witness ==
    /\ upl.pc = "finished" /\ upl.status = Some(400)
    /\ Get(upl.file).content_type \notin ALLOWED_MIME_TYPES

\* A record holds a key at its top level or inside `extra`.
Has(m, key) == m[key] # Absent \/ (m.extra # Absent /\ Get(m.extra)[key] # Absent)

ConvertedKeys == {"converted_name", "converted_path", "duration_seconds"}

\* C6: when the conversion tool or the probe has failed, the upload ends
\* with 200, the record written holds conversion_error, and neither it nor
\* the returned record holds converted_name, converted_path or
\* duration_seconds.
C6_ConversionFailureNonFatal ==
    (upl.pc = "finished" /\ upl.toolFailed) =>
        /\ upl.status = Some(200)
        /\ MetaExists(Get(upl.dest).stem)
        /\ Has(Get(meta[Get(upl.dest).stem]), "conversion_error")
        /\ Has(Get(upl.body), "conversion_error")
        /\ \A k \in ConvertedKeys :
              /\ ~Has(Get(meta[Get(upl.dest).stem]), k)
              /\ ~Has(Get(upl.body), k)

\* The probe (not the conversion) failed: the converted file is on disk.
C6_Witness ==
    /\ upl.pc = "finished" /\ upl.toolFailed
    /\ converted[Get(upl.dest).stem]

\* A transcribe request r begins in this step.
Begins(r) == req[r].pc = "idle" /\ req'[r].pc # "idle"

\* ... and ends in it with `status`, having touched no record, no
\* transcript, and neither the lock, the pool, the load nor the inference.
RefusedWith(r, status) ==
    /\ req'[r].pc = "done" /\ req'[r].status = Some(status)
    /\ ~req'[r].ranInference
    /\ meta' = meta /\ transcript' = transcript
    /\ UNCHANGED <<MODEL, lockHolder, lockWaiters, execQueue, execRunning,
                   loadCalls, infCalls>>

\* The record of an upload whose extension needed no conversion.
UnconvertedUpload(m) ==
    /\ m.stored_name # Absent
    /\ Lower(Get(m.stored_name).suffix) \notin CONVERT_EXTS
    /\ m.extra = Absent /\ m.converted_path = Absent /\ m.converted_name = Absent

\* C7: a transcribe request for an uploaded file whose extension needed no
\* conversion transcribes the uploaded blob itself instead of failing for
\* lack of a converted path.
C7_UnconvertedUsesUpload ==
    [][\A r \in Requests :
          (/\ Begins(r)
           /\ MetaExists(Get(req'[r].fid))
           /\ UnconvertedUpload(Get(meta[Get(req'[r].fid)]))) =>
              /\ req'[r].path =
                     Some(AbsPath("uploads",
                                  Get(Get(meta[Get(req'[r].fid)]).stored_name)))
              /\ req'[r].status \notin {Some(400), Some(404)}]_vars

\* A record that names no converted audio in any of the three places.
NoConvertedPathIn(m) ==
    /\ m.converted_path = Absent
    /\ m.extra = Absent \/ (/\ Get(m.extra).converted_path = Absent
                            /\ Get(m.extra).converted_name = Absent)
    /\ m.converted_name = Absent

\* A record that names converted audio which is not on disk.
ConvertedFileMissing(m) ==
    /\ ~NoConvertedPathIn(m)
    /\ ExistingPath(Get(ResolveConvertedPath(m))) = Absent

\* C8: a request for a file whose record names no converted audio,
\* or names audio that is not on disk, ends with 404 and runs no inference
\* and changes no record.
C8_UnresolvableIs404 ==
    [][\A r \in Requests :
          (/\ Begins(r)
           /\ MetaExists(Get(req'[r].fid))
           /\ \/ NoConvertedPathIn(Get(meta[Get(req'[r].fid)]))
              \/ ConvertedFileMissing(Get(meta[Get(req'[r].fid)]))) =>
              RefusedWith(r, 404)]_vars

\* C9: a transcribe request for a file id without a record ends with 404 in
\* the step that begins it; no record and no transcript is created or
\* changed, and neither the model load nor the inference is invoked.
C9_UnknownIdNoSideEffects ==
    [][\A r \in Requests :
          (Begins(r) /\ ~MetaExists(Get(req'[r].fid))) => RefusedWith(r, 404)]_vars

C9_Witness ==
    \E r \in Requests :
        /\ Finished(r) /\ req[r].status = Some(404)
        /\ ~MetaExists(Get(req[r].fid))

\* C11: whenever saving the blob fails, for the size cap or for an I/O error
\* while reading the stream or writing a chunk, no file is left at the
\* destination once the upload has ended.
C11_NoPartialBlob ==
    (/\ upl.pc = "finished"
     /\ upl.dest # Absent
     /\ upl.status # Some(200)) =>
        blob[Get(upl.dest).stem] = NoFile

\* C12: an upload with an accepted MIME type and a stream of n <= cap bytes
\* ends with 200, the stored blob is exactly the n bytes sent and the
\* record's size_bytes is n; a stream of cap + 1 bytes is rejected.
C12_ExactBytesStored ==
    (/\ upl.pc = "finished"
     /\ Get(upl.file).content_type \in ALLOWED_MIME_TYPES) =>
        LET n == Get(upl.file).size
            fid == Get(upl.dest).stem
        IN  /\ n <= MAX_FILE_SIZE =>
                  /\ upl.status = Some(200)
                  /\ blob[fid] = Some(Stream(n))
                  /\ MetaExists(fid)
                  /\ Get(meta[fid]).size_bytes = Some(n)
                  /\ Get(upl.body).size_bytes = Some(n)
            /\ n = MAX_FILE_SIZE + 1 => upl.status = Some(413)

\* A stream of exactly the cap, read in several chunks, was stored.
C12_Witness ==
    /\ upl.pc = "finished" /\ upl.status = Some(200)
    /\ Get(upl.file).size = MAX_FILE_SIZE
    /\ MAX_FILE_SIZE > chunk_size
    /\ blob[Get(upl.dest).stem] = Some(Stream(MAX_FILE_SIZE))

\* C13: after an upload with an extension in the convert set whose
\* conversion and probe both succeeded, the record read back from
\* data/uploads_meta has the converted_path field of the returned record,
\* with the same value, its target exists, and its duration_seconds is the
\* one the upload returned from the probe.
C13_ConvertedPathRoundTrip ==
    (/\ upl.pc = "finished" /\ upl.status = Some(200)
     /\ Lower(Get(upl.dest).suffix) \in CONVERT_EXTS
     /\ ~upl.toolFailed) =>
        LET rec == Get(meta[Get(upl.dest).stem])
            body == Get(upl.body)
        IN  /\ body.converted_path # Absent
            /\ rec.converted_path = body.converted_path
            /\ PathExists(Get(rec.converted_path))
            /\ rec.duration_seconds = body.duration_seconds

\* Request r has begun and answered in this one step with 200: the quick
\* return of transcribe_audio, the only way to answer without waiting.
ReturnsCached(r) == Begins(r) /\ req'[r].pc = "done" /\ req'[r].status = Some(200)

\* C14: a transcribe request that returns through the cached-transcript
\* path leaves the file's record with transcription_status = done,
\* whatever the status was before.
C14_CachedPathMarksDone ==
    [][\A r \in Requests :
          (ReturnsCached(r) /\ MetaExists(Get(req'[r].fid))) =>
              Get(meta'[Get(req'[r].fid)]).transcription_status = Some("done")]_vars

\* Request r's inference job returns or raises in this step.
EndsInference(r) == req[r].pc = "infer" /\ req'[r].pc = "done"

\* A record says failed, with an error message and a finish timestamp.
SaysFailed(m) ==
    /\ m.transcription_status = Some("failed")
    /\ m.transcription_error # Absent
    /\ m.transcription_finished_at # Absent

EndsWithError(r) ==
    /\ req[r].pc \in {"load", "infer"}
    /\ req'[r].pc = "done" /\ req'[r].status # Some(200)

\* C16: a transcribe request that has set transcription_status to running
\* and ends with an error, from the model load or from the inference,
\* leaves the record with transcription_status = failed.
C16_ErrorLeavesFailed ==
    [][\A r \in Requests :
          (EndsWithError(r) /\ MetaExists(Get(req[r].fid))) =>
              Get(meta'[Get(req[r].fid)]).transcription_status = Some("failed")]_vars

\* C17: in every record, transcription_error is present if and only if
\* transcription_status is failed.
C17_ErrorIffFailed ==
    \A f \in FileIds :
        MetaExists(f) =>
            (Get(meta[f]).transcription_error # Absent
                <=> Get(meta[f]).transcription_status = Some("failed"))

\* C18: whenever a record says done, the file's transcript exists on disk,
\* and a request whose inference produced the text it answered with, no
\* other request for the file overlapping it, finds that text there; also
\* when the transcript write fails.
C18_DoneHasTranscript ==
    \A f \in FileIds :
        Status(f) = Some("done") =>
            /\ transcript[f] # NoFile
            /\ \A r \in Requests :
                  (/\ Succeeded(r) /\ req[r].ranInference
                   /\ req[r].fid = Some(f) /\ Sequential(r)) =>
                      transcript[f] = Some(WriteText(Get(req[r].text)))

\* The records a status update of transcribe_audio can write for file f
\* when it starts from the copy m.
UpdatesOf(m, f) ==
    {RunningMeta(m), CachedMeta(m, f)}
        \cup {FailedMeta(m, e) : e \in {"inference error"}}
        \cup {DoneMeta(m, f, Strip(raw)) : raw \in RawResults}

\* C19: every metadata read-modify-write of transcribe_audio is atomic: the
\* record a step writes is an update of the record as it is on disk at that
\* step, never of a copy read before another request's update, so no update
\* is lost.
C19_ReadModifyWriteAtomic ==
    [][\A f \in FileIds :
          (MetaExists(f) /\ meta'[f] # meta[f]) =>
              /\ meta'[f] # NoFile
              /\ Get(meta'[f]) \in UpdatesOf(Get(meta[f]), f)
              /\ \A k \in TranscriptionKeys :
                    Get(meta[f])[k] # Absent => Get(meta'[f])[k] # Absent]_vars

\* Two overlapping requests for one file have both finished with their last
\* update on disk, and the record still holds what each of them wrote.
C19_Witness ==
    \E r1, r2 \in Requests :
        /\ r1 # r2 /\ req[r1].fid = req[r2].fid
        /\ req[r1].overlapped /\ req[r2].overlapped
        /\ Finished(r1) /\ req[r1].wrote /\ req[r1].status = Some(500)
        /\ Finished(r2) /\ req[r2].wrote /\ req[r2].status = Some(200)
        /\ Get(meta[Get(req[r1].fid)]).transcription_error # Absent
        /\ Get(meta[Get(req[r1].fid)]).transcript_snippet # Absent

\* Request r's model load raises in this step.
LoadFails(r) == req[r].pc = "load" /\ req'[r].pc = "done"

\* C20: every transcribe request that has begun eventually answers, however
\* many requests run at once; and a model load that raises releases the
\* lock and leaves the model unloaded.
C20_RequestsComplete ==
    /\ \A r \in PoolRequests : (req[r].pc # "idle") ~> (req[r].pc = "done")
    /\ [][\A r \in PoolRequests :
             LoadFails(r) => lockHolder' = Absent /\ MODEL' = Absent]_vars

\* A load has raised, a request that had waited for the lock has loaded the
\* model again, and now both workers are busy while a job of another
\* request that had waited for the lock sits in the pool's queue.
C20_Witness ==
    /\ loadFails >= 1 /\ MODEL # Absent
    /\ Cardinality(execRunning) = max_workers
    /\ execQueue # <<>> /\ req[Head(execQueue)].waited

\* The fields of a record that are written at upload.
UploadKeys ==
    {"file_id", "original_name", "stored_name", "mime_type", "size_bytes",
     "uploaded_at", "extra", "converted_name", "converted_path",
     "duration_seconds", "conversion_error"}

\* C21: no step changes the upload-time fields of a record that exists:
\* whatever transcribe requests run, and also when a status update's read
\* of the record fails, file_id, original_name, stored_name, mime_type,
\* size_bytes, uploaded_at and the conversion fields stay as written at
\* upload.
C21_UploadFieldsKept ==
    [][\A f \in FileIds :
          MetaExists(f) =>
              /\ meta'[f] # NoFile
              /\ \A k \in UploadKeys : Get(meta'[f])[k] = Get(meta[f])[k]]_vars

====
